---------------------------- MODULE Spec2Model ----------------------------
(***************************************************************************)
(* Model of the sound-monitoring system: the subscriber's stream-health    *)
(* monitor (src/group_5_subscriber.py), the publisher's publish loop       *)
(* (src/group_5_publisher.py) and the value generator                      *)
(* (src/group_5_data_generator.py).                                        *)
(*                                                                         *)
(* Time is an integer clock `now` counted in ticks, TicksPerSecond ticks   *)
(* to the second.  Floating-point values are fixed-point integers, Scale   *)
(* units to 1.0.  Threads are modelled by their position (a pc named after *)
(* the source line they are about to execute).                             *)
(***************************************************************************)
EXTENDS Integers, Sequences, FiniteSets, TLC

(***************************************************************************)
(* Bounds of the model.                                                    *)
(***************************************************************************)
TicksPerSecond == 1
\* connect_to_broker calls, each starting one gap-check thread
MaxConnects == 1
\* Spec: the delivery path under every payload, over a short stretch of time
MaxSeconds == 1
MaxDeliveries == 2
\* SpecGap: the gap check over more than threshold + period seconds
GapSeconds == 7
GapDeliveries == 1
\* SpecWindow: enough Normal deliveries to overflow the rolling window
MaxWindowDeliveries == 52
MaxRejected == 1
\* SpecPub and SpecSys: the publish loop
MaxStarts == 2
MaxPubThreads == 1
MaxCycles == 1
SysCycles == 2
\* SpecTopic: the same, with other publishers on the topic
TopicCycles == 1
\* SpecRestart: start and stop calls with the threads they leave behind
RestartStarts == 2
RestartThreads == 2
RestartCycles == 2
\* SpecReconnect: connects and disconnects with the gap-check threads they
\* leave behind
ReconnectConnects == 2
ReconnectSeconds == 1
\* SpecGen: calls of generate_value
GenCalls == 3

(***************************************************************************)
(* Program constants.                                                      *)
(***************************************************************************)
\* self.last_packet_time = None. Python's truth test (line 206) treats None
\* and 0 alike, so the model uses one falsy value for it.
None == 0
\* self.missing_data_threshold = 5 (seconds)
missing_data_threshold == 5
\* time.sleep(1) in monitor_missing_data (seconds)
CheckPeriod == 1
\* abs(value) > 100
ErrThreshold == 100
\* len(self.data_points) > 50
WindowLimit == 50
\* Fixed-point unit of a float: Scale units are 1.0.
Scale == 10000
\* time.time() at program start, in ticks (positive, as the wall clock is).
Epoch == 1

VARIABLES
    \* ---- SubscriberGUI fields ----
    is_connected,       \* self.is_connected
    sub_client,         \* self.mqtt_client of the subscriber: 0 = None, k = k-th client
    loop_running,       \* the client's network loop (loop_start / loop_stop)
    subscribed,         \* on_connect has subscribed the current client
    data_points,        \* self.data_points: sequence of <<timestamp, value>>
    last_packet_time,   \* self.last_packet_time: None or a clock reading
    sub_status,         \* kind of the last message given to update_status
    plot,               \* what update_plot last drew
    \* ---- threads of the subscriber ----
    dpc,                \* network thread's position inside on_message
    d_local,            \* on_message locals: [timestamp, value]
    mon_pc,             \* position of each monitor_missing_data thread
    mon_wake,           \* when each sleeping monitor thread wakes
    \* ---- PublisherGUI and DataGenerator fields ----
    is_running,         \* self.is_running
    pub_client,         \* self.mqtt_client of the publisher: 0 = None, k = k-th client
    pub_client_up,      \* that client is connected to the broker
    interval,           \* text of the interval entry
    pub_status,         \* kind of the last message in the publisher's status text
    gen_config,         \* DataGenerator: [base_value, variance, trend_strength]
    current_trend,      \* DataGenerator.current_trend
    last_value,         \* DataGenerator.last_value
    \* ---- threads of the publisher ----
    pub_pc,             \* position of each publish_loop thread
    pub_data,           \* data["value"] of each publish_loop thread
    \* ---- environment ----
    channel,            \* payloads the broker has yet to deliver to the subscriber
    now,                \* wall clock in ticks
    limits,             \* the bounds of the run: [deliveries, connects, seconds,
                        \* starts, cycles, threads]
    \* ---- history (not read by the program) ----
    n_deliveries,       \* on_message calls so far
    n_rejected,         \* of those, the ones not classified Normal
    normals,            \* every <<timestamp, value>> classified Normal, in order
    last_payload,       \* the payload of the last delivery
    last_class,         \* how on_message classified it
    last_delivery_at,   \* clock at the last delivery
    stayed_connected,   \* no disconnect since the last delivery
    missing_since,      \* a Missing warning was emitted since the last delivery
    n_connects,         \* connect_to_broker calls so far
    last_tick,          \* the last gap check: [seen, gap, emitted, before]
    disc_seen,          \* per monitor thread: a disconnect has ended its connection
    n_start_calls,      \* start_publishing calls so far
    n_clients,          \* mqtt clients the publisher has created so far
    n_cycles,           \* publish cycles begun so far
    n_generated,        \* generate_value calls so far
    last_cycle,         \* each thread's last cycle: [run, r1, r2, calls, generated,
                        \* value, outcome]; run is the number of the client
                        \* current when the cycle began, while it is in progress
    last_gen,           \* the last generate_value call: [before, trend, returned]
    stop_seen           \* per thread: stop_publishing has ended the run it belongs to

subVars == <<is_connected, sub_client, loop_running, subscribed, data_points,
             last_packet_time, sub_status, plot, dpc, d_local, mon_pc, mon_wake>>
histVars == <<n_deliveries, n_rejected, normals, last_payload, last_class,
              last_delivery_at, stayed_connected, missing_since, n_connects,
              last_tick, disc_seen>>
pubVars == <<is_running, pub_client, pub_client_up, interval, pub_status,
             gen_config, current_trend, last_value, pub_pc, pub_data>>
pubHist == <<n_start_calls, n_clients, n_cycles, n_generated, last_cycle,
             last_gen, stop_seen>>
pubAll == <<pubVars, pubHist>>
vars == <<subVars, pubVars, channel, now, limits, histVars, pubHist>>

\* one monitor thread is started per successful connect
Monitors == 1..ReconnectConnects

Abs(x) == IF x < 0 THEN -x ELSE x
Min(a, b) == IF a < b THEN a ELSE b

\* Python truth value of self.last_packet_time
Truthy(x) == x /= None

(***************************************************************************)
(* Payloads on the channel.  json = FALSE is text json.loads rejects.       *)
(* vkind: the "value" member is a number, absent, or a string;             *)
(* tkind: the "timestamp" member is an ISO string, absent, or unparsable.  *)
(***************************************************************************)
Payload(j, vk, v, tk, t) ==
    [json |-> j, vkind |-> vk, value |-> v, tkind |-> tk, timestamp |-> t,
     packet_id |-> 0]

Garbage == Payload(FALSE, "absent", 0, "absent", 0)
WellFormedPayload(v, t) == Payload(TRUE, "num", v, "iso", t)

\* The values the environment delivers, around the threshold.
EnvValues == {ErrThreshold * Scale, ErrThreshold * Scale + 1,
              -(ErrThreshold * Scale), -(ErrThreshold * Scale) - 1}

MalformedPayloads ==
    {Garbage,
     Payload(TRUE, "absent", 0, "iso", 0),
     Payload(TRUE, "str", 0, "iso", 0),
     Payload(TRUE, "num", 20 * Scale, "absent", 0),
     Payload(TRUE, "num", 150 * Scale, "bad", 0)}

\* Mutant of Deserializes: the timestamp is not parsed.
Deserializes_no_timestamp(p) == p.json /\ p.vkind = "num"

\* json.loads / data["value"] / fromisoformat / abs succeed
Deserializes(p) == p.json /\ p.vkind = "num" /\ p.tkind = "iso"

\* Mutant of IsErroneous: the comparison is >= instead of >.
IsErroneous_ge(v) == Abs(v) >= ErrThreshold * Scale

\* abs(value) > 100
IsErroneous(v) == Abs(v) > ErrThreshold * Scale

Classify(p) ==
    IF ~p.json THEN "InvalidJSON"
    ELSE IF ~Deserializes(p) THEN "ProcessingError"
    ELSE IF IsErroneous(p.value) THEN "Erroneous"
    ELSE "Normal"

NoLocal == [timestamp |-> 0, value |-> 0]
NoTick == [seen |-> FALSE, gap |-> 0, emitted |-> FALSE, before |-> FALSE]

(***************************************************************************)
(* SubscriberGUI.__init__                                                  *)
(***************************************************************************)
SubInit ==
    /\ is_connected = FALSE
    /\ sub_client = 0
    /\ loop_running = FALSE
    /\ subscribed = FALSE
    /\ data_points = <<>>
    /\ last_packet_time = None
    /\ sub_status = "none"
    /\ plot = <<>>
    /\ dpc = "idle"
    /\ d_local = NoLocal
    /\ mon_pc = [m \in Monitors |-> "none"]
    /\ mon_wake = [m \in Monitors |-> 0]

HistInit ==
    /\ n_deliveries = 0
    /\ n_rejected = 0
    /\ normals = <<>>
    /\ last_payload = Garbage
    /\ last_class = "none"
    /\ last_delivery_at = None
    /\ stayed_connected = FALSE
    /\ missing_since = FALSE
    /\ n_connects = 0
    /\ last_tick = NoTick
    /\ disc_seen = [m \in Monitors |-> FALSE]

(***************************************************************************)
(* toggle_connection -> connect_to_broker / disconnect_from_broker.        *)
(* Runs on the GUI thread.  mqtt connect() either returns or raises.       *)
(* loop_stop() joins the network thread, so a disconnect completes only     *)
(* when no on_message call is in progress.                                 *)
(***************************************************************************)
connect_to_broker(ok) ==
    /\ ~is_connected
    /\ n_connects < limits.connects
    /\ n_connects' = n_connects + 1
    /\ sub_client' = 1
    /\ subscribed' = FALSE
    /\ IF ok
       THEN /\ \E m \in Monitors :
                 /\ mon_pc[m] = "none"
                 /\ \A k \in Monitors : k < m => mon_pc[k] /= "none"
                 /\ mon_pc' = [mon_pc EXCEPT ![m] = "l205"]
                 /\ disc_seen' = [disc_seen EXCEPT ![m] = FALSE]
            /\ loop_running' = TRUE
            /\ is_connected' = TRUE
            /\ sub_status' = "connected"
       ELSE /\ sub_status' = "connection_error"
            /\ UNCHANGED <<loop_running, is_connected, mon_pc, disc_seen>>
    /\ UNCHANGED <<data_points, last_packet_time, plot, dpc, d_local, mon_wake,
                   now, limits, n_deliveries, n_rejected, normals, last_payload,
                   last_class, last_delivery_at, stayed_connected, missing_since,
                   last_tick>>
    /\ UNCHANGED <<pubAll, channel>>

disconnect_from_broker ==
    /\ is_connected
    /\ dpc = "idle"
    /\ loop_running' = FALSE
    /\ subscribed' = FALSE
    /\ is_connected' = FALSE
    /\ sub_status' = "disconnected"
    /\ stayed_connected' = FALSE
    /\ disc_seen' = [m \in Monitors |-> disc_seen[m] \/ mon_pc[m] /= "none"]
    /\ UNCHANGED <<sub_client, data_points, last_packet_time, plot, dpc, d_local,
                   mon_pc, mon_wake, now, limits, n_deliveries, n_rejected, normals,
                   last_payload, last_class, last_delivery_at, missing_since,
                   n_connects, last_tick>>
    /\ channel' = <<>>
    /\ UNCHANGED pubAll

toggle_connection ==
    \/ \E ok \in BOOLEAN : connect_to_broker(ok)
    \/ disconnect_from_broker

\* on_connect: client.subscribe(topic)
on_connect ==
    /\ loop_running
    /\ ~subscribed
    /\ subscribed' = TRUE
    /\ UNCHANGED <<is_connected, sub_client, loop_running, data_points,
                   last_packet_time, sub_status, plot, dpc, d_local, mon_pc,
                   mon_wake, now, limits, histVars>>
    /\ UNCHANGED <<pubAll, channel>>


(***************************************************************************)
(* on_message, run by the client's network thread, one call at a time.     *)
(* Lines 152-160: deserialize and classify.  A payload that fails to        *)
(* deserialize ends in one of the except clauses; an Erroneous value        *)
(* returns at line 160.  A Normal value goes on to line 163.               *)
(***************************************************************************)
on_message(p) ==
    /\ loop_running
    /\ subscribed
    /\ dpc = "idle"
    /\ LET cls == Classify(p) IN
       /\ sub_status' = CASE cls = "InvalidJSON" -> "invalid_json"
                          [] cls = "ProcessingError" -> "processing_error"
                          [] cls = "Erroneous" -> "erroneous"
                          [] OTHER -> sub_status
       /\ dpc' = IF cls = "Normal" THEN "l163" ELSE "idle"
       /\ d_local' = IF cls = "Normal"
                     THEN [timestamp |-> p.timestamp, value |-> p.value]
                     ELSE NoLocal
       /\ last_class' = cls
       /\ normals' = IF cls = "Normal" THEN Append(normals, <<p.timestamp, p.value>>) ELSE normals
       /\ n_rejected' = IF cls = "Normal" THEN n_rejected ELSE n_rejected + 1
    /\ n_deliveries' = n_deliveries + 1
    /\ last_payload' = p
    /\ last_delivery_at' = now
    /\ stayed_connected' = TRUE
    /\ missing_since' = FALSE
    /\ UNCHANGED <<is_connected, sub_client, loop_running, subscribed, data_points,
                   last_packet_time, plot, mon_pc, mon_wake, now, limits, n_connects,
                   last_tick, disc_seen>>
    /\ UNCHANGED pubAll

\* line 163: self.data_points.append((timestamp, value))
on_message_l163 ==
    /\ dpc = "l163"
    /\ data_points' = Append(data_points, <<d_local.timestamp, d_local.value>>)
    /\ dpc' = "l164"
    /\ UNCHANGED <<is_connected, sub_client, loop_running, subscribed,
                   last_packet_time, sub_status, plot, d_local, mon_pc, mon_wake,
                   now, limits, histVars>>
    /\ UNCHANGED <<pubAll, channel>>

\* line 164: self.last_packet_time = time.time()
on_message_l164 ==
    /\ dpc = "l164"
    /\ last_packet_time' = now
    /\ dpc' = "l167"
    /\ UNCHANGED <<is_connected, sub_client, loop_running, subscribed, data_points,
                   sub_status, plot, d_local, mon_pc, mon_wake, now, limits, histVars>>
    /\ UNCHANGED <<pubAll, channel>>

\* Mutant of on_message_l167: the bound test is >= instead of >.
on_message_l167_ge ==
    /\ dpc = "l167"
    /\ data_points' = IF Len(data_points) >= WindowLimit
                      THEN Tail(data_points)
                      ELSE data_points
    /\ dpc' = "l170"
    /\ UNCHANGED <<is_connected, sub_client, loop_running, subscribed,
                   last_packet_time, sub_status, plot, d_local, mon_pc, mon_wake,
                   now, limits, histVars>>
    /\ UNCHANGED <<pubAll, channel>>

\* lines 167-168: if len(self.data_points) > 50: self.data_points.pop(0)
on_message_l167 ==
    /\ dpc = "l167"
    /\ data_points' = IF Len(data_points) > WindowLimit
                      THEN Tail(data_points)
                      ELSE data_points
    /\ dpc' = "l170"
    /\ UNCHANGED <<is_connected, sub_client, loop_running, subscribed,
                   last_packet_time, sub_status, plot, d_local, mon_pc, mon_wake,
                   now, limits, histVars>>
    /\ UNCHANGED <<pubAll, channel>>

\* lines 170-171: self.update_plot(); self.update_status("Received: ...")
\* update_plot (lines 185-196) reads self.data_points and draws it.
on_message_l170 ==
    /\ dpc = "l170"
    /\ plot' = data_points
    /\ sub_status' = "received"
    /\ dpc' = "idle"
    /\ d_local' = NoLocal
    /\ UNCHANGED <<is_connected, sub_client, loop_running, subscribed, data_points,
                   last_packet_time, mon_pc, mon_wake, now, limits, histVars>>
    /\ UNCHANGED <<pubAll, channel>>

(***************************************************************************)
(* monitor_missing_data, one thread per successful connect.                *)
(***************************************************************************)
\* line 205: while self.is_connected
monitor_l205(m) ==
    /\ mon_pc[m] = "l205"
    /\ mon_pc' = [mon_pc EXCEPT ![m] = IF is_connected THEN "l206" ELSE "none"]
    /\ disc_seen' = IF is_connected THEN disc_seen ELSE [disc_seen EXCEPT ![m] = FALSE]
    /\ UNCHANGED <<is_connected, sub_client, loop_running, subscribed, data_points,
                   last_packet_time, sub_status, plot, dpc, d_local, mon_wake, now, limits,
                   n_deliveries, n_rejected, normals, last_payload, last_class,
                   last_delivery_at, stayed_connected, missing_since, n_connects,
                   last_tick>>
    /\ UNCHANGED <<pubAll, channel>>

\* Mutant of GapExceeded: the comparison is >= instead of >.
GapExceeded_ge(gap) == gap >= missing_data_threshold * TicksPerSecond

\* time.time() - self.last_packet_time > self.missing_data_threshold
GapExceeded(gap) == gap > missing_data_threshold * TicksPerSecond

\* line 206, left operand of `and`: the truth value of self.last_packet_time.
\* When it is falsy the condition is False and the thread goes to sleep (208).
monitor_l206(m) ==
    /\ mon_pc[m] = "l206"
    /\ IF Truthy(last_packet_time)
       THEN /\ mon_pc' = [mon_pc EXCEPT ![m] = "l206b"]
            /\ UNCHANGED <<mon_wake, last_tick>>
       ELSE /\ mon_pc' = [mon_pc EXCEPT ![m] = "l208"]
            /\ mon_wake' = [mon_wake EXCEPT ![m] = now + CheckPeriod * TicksPerSecond]
            /\ last_tick' = [seen |-> FALSE, gap |-> 0, emitted |-> FALSE,
                             before |-> last_tick.emitted]
    /\ UNCHANGED <<is_connected, sub_client, loop_running, subscribed, data_points,
                   last_packet_time, sub_status, plot, dpc, d_local, now, limits,
                   n_deliveries, n_rejected, normals, last_payload, last_class,
                   last_delivery_at, stayed_connected, missing_since, n_connects,
                   disc_seen>>
    /\ UNCHANGED <<pubAll, channel>>

\* Mutant of monitor_l206b: a warning restarts the gap timer.
monitor_l206b_reset(m) ==
    /\ mon_pc[m] = "l206b"
    /\ LET gap == now - last_packet_time
           emit == GapExceeded(gap) IN
       /\ missing_since' = (missing_since \/ emit)
       /\ last_tick' = [seen |-> TRUE, gap |-> gap, emitted |-> emit,
                        before |-> last_tick.emitted]
       /\ last_packet_time' = IF emit THEN now ELSE last_packet_time
    /\ mon_pc' = [mon_pc EXCEPT ![m] = "l208"]
    /\ mon_wake' = [mon_wake EXCEPT ![m] = now + CheckPeriod * TicksPerSecond]
    /\ UNCHANGED <<is_connected, sub_client, loop_running, subscribed, data_points,
                   sub_status, plot, dpc, d_local, now, limits,
                   n_deliveries, n_rejected, normals, last_payload, last_class,
                   last_delivery_at, stayed_connected, n_connects, disc_seen>>
    /\ UNCHANGED <<pubAll, channel>>

\* line 206, right operand, and line 207: the second read of
\* self.last_packet_time, the comparison, and the warning handed to the GUI
\* thread with root.after; then line 208, time.sleep(1).
monitor_l206b(m) ==
    /\ mon_pc[m] = "l206b"
    /\ LET gap == now - last_packet_time
           emit == GapExceeded(gap) IN
       /\ missing_since' = (missing_since \/ emit)
       /\ last_tick' = [seen |-> TRUE, gap |-> gap, emitted |-> emit,
                        before |-> last_tick.emitted]
    /\ mon_pc' = [mon_pc EXCEPT ![m] = "l208"]
    /\ mon_wake' = [mon_wake EXCEPT ![m] = now + CheckPeriod * TicksPerSecond]
    /\ UNCHANGED <<is_connected, sub_client, loop_running, subscribed, data_points,
                   last_packet_time, sub_status, plot, dpc, d_local, now, limits,
                   n_deliveries, n_rejected, normals, last_payload, last_class,
                   last_delivery_at, stayed_connected, n_connects, disc_seen>>
    /\ UNCHANGED <<pubAll, channel>>

\* line 208: time.sleep(1) returns
monitor_l208(m) ==
    /\ mon_pc[m] = "l208"
    /\ now >= mon_wake[m]
    /\ mon_pc' = [mon_pc EXCEPT ![m] = "l205"]
    /\ mon_wake' = [mon_wake EXCEPT ![m] = 0]
    /\ UNCHANGED <<is_connected, sub_client, loop_running, subscribed, data_points,
                   last_packet_time, sub_status, plot, dpc, d_local, now, limits, histVars>>
    /\ UNCHANGED <<pubAll, channel>>

(***************************************************************************)
(* DataGenerator (src/group_5_data_generator.py).  A draw of               *)
(* random.uniform(-a, a) is d * a for d in DrawUnits.                      *)
(***************************************************************************)
DrawUnits == {-1, 1}

Max(a, b) == IF a > b THEN a ELSE b

GenConfig(b, v, t) == [base_value |-> b, variance |-> v, trend_strength |-> t]

\* DataGenerator.__init__ defaults: base_value=20, variance=5, trend_strength=0.1
DefaultConfig == GenConfig(20 * Scale, 5 * Scale, Scale \div 10)

\* A generator of small constant values: base_value=1, variance=0, trend_strength=0
FlatConfig == GenConfig(1 * Scale, 0, 0)

\* Mutant of NextTrend: the trend is not kept between -1 and 1.
NextTrend_unclamped(cfg, trend, d) == trend + d * cfg.trend_strength

\* line 38-39: the trend after a draw d, kept between -1 and 1
NextTrend(cfg, trend, d) ==
    Max(Min(trend + d * cfg.trend_strength, Scale), -Scale)

\* Mutant of NextValue: the blend is 50% previous value and 50% new value.
NextValue_half(cfg, trend, last, c) ==
    LET random_component == c * cfg.variance
        trend_component == (trend * cfg.variance) \div Scale
        new_value == cfg.base_value + random_component + trend_component
    IN (5 * last + 5 * new_value) \div 10

\* lines 42-47: the smoothed value, 70% previous value and 30% new value
NextValue(cfg, trend, last, c) ==
    LET random_component == c * cfg.variance
        trend_component == (trend * cfg.variance) \div Scale
        new_value == cfg.base_value + random_component + trend_component
    IN (7 * last + 3 * new_value) \div 10

\* round(x, 2): the nearest multiple of 0.01, a tie going to the even one
Round2(x) ==
    LET unit == Scale \div 100
        lo == (x \div unit) * unit
        rest == x - lo
    IN IF 2 * rest < unit THEN lo
       ELSE IF 2 * rest > unit THEN lo + unit
       ELSE IF (lo \div unit) % 2 = 0 THEN lo ELSE lo + unit

\* generate_value (lines 29-50) with the draws d (trend) and c (random
\* component): what one call does to the generator, and what it returns
generate_value(d, c) ==
    LET trend == NextTrend(gen_config, current_trend, d)
        value == NextValue(gen_config, trend, last_value, c) IN
    /\ current_trend' = trend
    /\ last_value' = value
    /\ n_generated' = n_generated + 1
    /\ last_gen' = [before |-> last_value, trend |-> trend, returned |-> Round2(value)]

(***************************************************************************)
(* PublisherGUI (src/group_5_publisher.py).                                *)
(***************************************************************************)
\* random.random() in thousandths: 0.0, 0.01 and 0.5
Draws == {0, 10, 500}
\* random.random() > 0.01 (line 121)
DropLimit == 10
\* random.random() < 0.01 (line 125)
CorruptLimit == 10
\* random.uniform(10, 100) (line 126)
Multipliers == {10, 100}

\* The interval entry: the default text and one float() rejects.
IntervalEntries == {"1000", "abc"}

\* one publish_loop thread is started per successful start
PubThreads == 1..RestartThreads

NoCycle ==
    [run |-> 0, r1 |-> 0, r2 |-> 0, calls |-> 0, generated |-> 0, value |-> 0,
     outcome |-> "none"]
NoGen == [before |-> 0, trend |-> 0, returned |-> 0]

\* PublisherGUI.__init__ with its DataGenerator
PubInit(cfg, entry) ==
    /\ is_running = FALSE
    /\ pub_client = 0
    /\ pub_client_up = FALSE
    /\ interval = entry
    /\ pub_status = "none"
    /\ gen_config = cfg
    /\ current_trend = 0
    /\ last_value = cfg.base_value
    /\ pub_pc = [t \in PubThreads |-> "none"]
    /\ pub_data = [t \in PubThreads |-> 0]
    /\ channel = <<>>
    /\ n_start_calls = 0
    /\ n_clients = 0
    /\ n_cycles = 0
    /\ n_generated = 0
    /\ last_cycle = [t \in PubThreads |-> NoCycle]
    /\ last_gen = NoGen
    /\ stop_seen = [t \in PubThreads |-> FALSE]

subAll == <<subVars, now, limits, histVars>>

\* Mutant of start_publishing: the test of self.is_running is missing.
start_publishing_unguarded(ok) ==
    /\ n_start_calls < limits.starts
    /\ n_start_calls' = n_start_calls + 1
    /\ is_running' = TRUE
    /\ n_clients' = n_clients + 1
    /\ pub_client' = n_clients + 1
    /\ pub_client_up' = ok
    /\ IF ok
       THEN /\ \E t \in PubThreads :
                 /\ t <= limits.threads
                 /\ pub_pc[t] = "none"
                 /\ \A k \in PubThreads : k < t => pub_pc[k] /= "none"
                 /\ pub_pc' = [pub_pc EXCEPT ![t] = "l118"]
                 /\ stop_seen' = [stop_seen EXCEPT ![t] = FALSE]
            /\ pub_status' = "started"
       ELSE UNCHANGED <<pub_pc, pub_status, stop_seen>>
    /\ UNCHANGED <<interval, gen_config, current_trend, last_value, pub_data,
                   channel, n_cycles, n_generated, last_cycle, last_gen, subAll>>

\* start_publishing, on the GUI thread; mqtt connect() returns (ok) or raises.
start_publishing(ok) ==
    /\ n_start_calls < limits.starts
    /\ n_start_calls' = n_start_calls + 1
    /\ IF ~is_running
       THEN /\ is_running' = TRUE
            /\ n_clients' = n_clients + 1
            /\ pub_client' = n_clients + 1
            /\ pub_client_up' = ok
            /\ IF ok
               THEN /\ \E t \in PubThreads :
                         /\ t <= limits.threads
                         /\ pub_pc[t] = "none"
                         /\ \A k \in PubThreads : k < t => pub_pc[k] /= "none"
                         /\ pub_pc' = [pub_pc EXCEPT ![t] = "l118"]
                         /\ stop_seen' = [stop_seen EXCEPT ![t] = FALSE]
                    /\ pub_status' = "started"
               ELSE UNCHANGED <<pub_pc, pub_status, stop_seen>>
       ELSE UNCHANGED <<is_running, n_clients, pub_client, pub_client_up, pub_pc,
                        pub_status, stop_seen>>
    /\ UNCHANGED <<interval, gen_config, current_trend, last_value, pub_data,
                   channel, n_cycles, n_generated, last_cycle, last_gen, subAll>>

\* stop_publishing, on the GUI thread
stop_publishing ==
    /\ is_running' = FALSE
    /\ pub_client_up' = FALSE
    /\ pub_status' = "stopped"
    /\ stop_seen' = [t \in PubThreads |->
                       stop_seen[t] \/ (is_running /\ pub_pc[t] /= "none")]
    /\ UNCHANGED <<pub_client, interval, gen_config, current_trend, last_value,
                   pub_pc, pub_data, channel, n_start_calls, n_clients, n_cycles,
                   n_generated, last_cycle, last_gen, subAll>>

\* line 118: while self.is_running
publish_loop_l118(t) ==
    /\ pub_pc[t] = "l118"
    /\ pub_pc' = [pub_pc EXCEPT ![t] = IF is_running THEN "l121" ELSE "none"]
    /\ stop_seen' = IF is_running THEN stop_seen ELSE [stop_seen EXCEPT ![t] = FALSE]
    /\ UNCHANGED <<is_running, pub_client, pub_client_up, interval, pub_status,
                   gen_config, current_trend, last_value, pub_data, channel,
                   n_start_calls, n_clients, n_cycles, n_generated, last_cycle,
                   last_gen, subAll>>

\* Mutant of Survives: the comparison is >= instead of >.
Survives_ge(r1) == r1 >= DropLimit

\* random.random() > 0.01: the packet is not dropped
Survives(r1) == r1 > DropLimit

\* line 121: if random.random() > 0.01; a dropped cycle goes to the sleep
publish_loop_l121(t, r1) ==
    /\ pub_pc[t] = "l121"
    /\ n_cycles < limits.cycles
    /\ n_cycles' = n_cycles + 1
    /\ pub_pc' = [pub_pc EXCEPT ![t] = IF Survives(r1) THEN "l122" ELSE "l134"]
    /\ last_cycle' = [last_cycle EXCEPT ![t] =
                        [NoCycle EXCEPT !.run = IF Survives(r1) THEN n_clients ELSE 0,
                           !.r1 = r1,
                           !.outcome = IF Survives(r1) THEN "begun" ELSE "dropped"]]
    /\ UNCHANGED <<is_running, pub_client, pub_client_up, interval, pub_status,
                   gen_config, current_trend, last_value, pub_data, channel,
                   n_start_calls, n_clients, n_generated, last_gen, stop_seen,
                   subAll>>

\* line 122: data = self.data_generator.get_data_packet(), which calls
\* generate_value (lines 38-50) with the draws d and c
publish_loop_l122(t, d, c) ==
    /\ pub_pc[t] = "l122"
    /\ generate_value(d, c)
    /\ pub_data' = [pub_data EXCEPT ![t] = last_gen'.returned]
    /\ last_cycle' = [last_cycle EXCEPT ![t].calls = @ + 1,
                                        ![t].generated = last_gen'.returned,
                                        ![t].value = last_gen'.returned]
    /\ pub_pc' = [pub_pc EXCEPT ![t] = "l125"]
    /\ UNCHANGED <<is_running, pub_client, pub_client_up, interval, pub_status,
                   gen_config, channel, n_start_calls, n_clients, n_cycles,
                   stop_seen, subAll>>

\* random.random() < 0.01: the packet is corrupted
Corrupts(r2) == r2 < CorruptLimit

\* lines 125-126: if random.random() < 0.01: data["value"] *= uniform(10, 100)
publish_loop_l125(t, r2, mult) ==
    /\ pub_pc[t] = "l125"
    /\ LET value == IF Corrupts(r2) THEN pub_data[t] * mult ELSE pub_data[t] IN
       /\ pub_data' = [pub_data EXCEPT ![t] = value]
       /\ last_cycle' = [last_cycle EXCEPT ![t].r2 = r2, ![t].value = value]
    /\ pub_pc' = [pub_pc EXCEPT ![t] = "l129"]
    /\ UNCHANGED <<is_running, pub_client, pub_client_up, interval, pub_status,
                   gen_config, current_trend, last_value, channel, n_start_calls,
                   n_clients, n_cycles, n_generated, last_gen, stop_seen, subAll>>

\* json.dumps(data): the text of the packet (get_data_packet, lines 60-64)
Dumps(value, clock) ==
    [json |-> TRUE, vkind |-> "num", value |-> value, tkind |-> "iso",
     timestamp |-> clock, packet_id |-> (clock * 1000) \div TicksPerSecond]

\* lines 129-132: message = json.dumps(data); self.mqtt_client.publish(...);
\* the status line.  The broker forwards the message to the subscriber when
\* the publisher's client is connected and the subscriber has subscribed.
\* publish() may raise instead (ok = FALSE), which leads to line 137.
publish_loop_l129(t, ok) ==
    /\ pub_pc[t] = "l129"
    /\ IF ok
       THEN /\ channel' = IF pub_client_up /\ subscribed
                          THEN Append(channel, Dumps(pub_data[t], now))
                          ELSE channel
            /\ pub_status' = "published"
            /\ last_cycle' = [last_cycle EXCEPT ![t].outcome = "published",
                                                ![t].run = 0]
            /\ pub_pc' = [pub_pc EXCEPT ![t] = "l134"]
       ELSE /\ last_cycle' = [last_cycle EXCEPT ![t].outcome = "raised",
                                                ![t].run = 0]
            /\ pub_pc' = [pub_pc EXCEPT ![t] = "l137"]
            /\ UNCHANGED <<channel, pub_status>>
    /\ pub_data' = [pub_data EXCEPT ![t] = 0]
    /\ UNCHANGED <<is_running, pub_client, pub_client_up, interval, gen_config,
                   current_trend, last_value, n_start_calls, n_clients, n_cycles,
                   n_generated, last_gen, stop_seen, subAll>>

\* float(self.interval.get()) succeeds
IntervalParses(text) == text = "1000"

\* line 134: time.sleep(float(self.interval.get()) / 1000); float() raises on
\* text that is no number, which leads to line 137
publish_loop_l134(t) ==
    /\ pub_pc[t] = "l134"
    /\ pub_pc' = [pub_pc EXCEPT ![t] = IF IntervalParses(interval)
                                       THEN "sleeping" ELSE "l137"]
    /\ UNCHANGED <<is_running, pub_client, pub_client_up, interval, pub_status,
                   gen_config, current_trend, last_value, pub_data, channel,
                   pubHist, subAll>>

\* line 134: time.sleep returns
publish_loop_wake(t) ==
    /\ pub_pc[t] = "sleeping"
    /\ pub_pc' = [pub_pc EXCEPT ![t] = "l118"]
    /\ UNCHANGED <<is_running, pub_client, pub_client_up, interval, pub_status,
                   gen_config, current_trend, last_value, pub_data, channel,
                   pubHist, subAll>>

\* lines 136-137: except Exception: the error goes to the status text and the
\* loop goes on
publish_loop_l137(t) ==
    /\ pub_pc[t] = "l137"
    /\ pub_status' = "error"
    /\ pub_pc' = [pub_pc EXCEPT ![t] = "l118"]
    /\ UNCHANGED <<is_running, pub_client, pub_client_up, interval, gen_config,
                   current_trend, last_value, pub_data, channel, pubHist, subAll>>

\* The broker delivers the oldest payload of the channel to on_message.
DeliverChannel ==
    /\ channel /= <<>>
    /\ n_deliveries < limits.deliveries
    /\ on_message(Head(channel))
    /\ channel' = Tail(channel)

(***************************************************************************)
(* The clock.  Statements take no time: the clock advances only when every *)
(* thread is asleep or waiting for input.                                  *)
(***************************************************************************)
SubAtRest ==
    /\ dpc = "idle"
    /\ \A m \in Monitors :
          \/ mon_pc[m] = "none"
          \/ mon_pc[m] = "l208" /\ mon_wake[m] > now

AdvanceTime ==
    /\ now < Epoch + limits.seconds * TicksPerSecond
    /\ SubAtRest
    /\ now' = now + 1
    /\ UNCHANGED <<subVars, limits, histVars>>
    /\ UNCHANGED <<pubAll, channel>>

(***************************************************************************)
(* Specification of the subscriber: the environment delivers any payload.  *)
(***************************************************************************)
\* A delivery of one of the payloads ps; the packet's timestamp is the
\* number of the delivery.
DeliverFrom(ps) ==
    /\ n_deliveries < limits.deliveries
    /\ \E p \in ps :
          on_message(IF p.tkind = "iso"
                     THEN [p EXCEPT !.timestamp = n_deliveries + 1]
                     ELSE p)
    /\ UNCHANGED channel

EnvPayloads == {WellFormedPayload(v, 0) : v \in EnvValues} \cup MalformedPayloads

Deliver == DeliverFrom(EnvPayloads)

Limits(d, c, s) ==
    [deliveries |-> d, connects |-> c, seconds |-> s, starts |-> 0, cycles |-> 0,
     threads |-> 0]

Init ==
    /\ SubInit /\ HistInit /\ now = Epoch
    /\ PubInit(DefaultConfig, "1000")
    /\ limits = Limits(MaxDeliveries, MaxConnects, MaxSeconds)

Next ==
    \/ toggle_connection
    \/ on_connect
    \/ Deliver
    \/ on_message_l163
    \/ on_message_l164
    \/ on_message_l167
    \/ on_message_l170
    \/ \E m \in Monitors : monitor_l205(m)
    \/ \E m \in Monitors : monitor_l206(m)
    \/ \E m \in Monitors : monitor_l206b(m)
    \/ \E m \in Monitors : monitor_l208(m)
    \/ AdvanceTime

Spec == Init /\ [][Next]_vars

(***************************************************************************)
(* Specification of the gap check: few deliveries, and time enough for the *)
(* threshold to pass.                                                      *)
(***************************************************************************)
GapPayloads == {WellFormedPayload(ErrThreshold * Scale, 0),
                WellFormedPayload(ErrThreshold * Scale + 1, 0),
                Garbage}

DeliverGap == DeliverFrom(GapPayloads)

InitGap ==
    /\ SubInit /\ HistInit /\ now = Epoch
    /\ PubInit(DefaultConfig, "1000")
    /\ limits = Limits(GapDeliveries, MaxConnects, GapSeconds)

NextGap ==
    \/ toggle_connection
    \/ on_connect
    \/ DeliverGap
    \/ on_message_l163
    \/ on_message_l164
    \/ on_message_l167
    \/ on_message_l170
    \/ \E m \in Monitors : monitor_l205(m)
    \/ \E m \in Monitors : monitor_l206(m)
    \/ \E m \in Monitors : monitor_l206b(m)
    \/ \E m \in Monitors : monitor_l208(m)
    \/ AdvanceTime

SpecGap == InitGap /\ [][NextGap]_vars

(***************************************************************************)
(* Specification of the rolling window: more than WindowLimit Normal       *)
(* deliveries, told apart by their timestamps, with at most MaxRejected    *)
(* other deliveries among them.  The clock stands still.                   *)
(***************************************************************************)
DeliverNormal == DeliverFrom({WellFormedPayload(20 * Scale, 0)})

DeliverRejected ==
    /\ n_rejected < MaxRejected
    /\ DeliverFrom({WellFormedPayload(150 * Scale, 0), Garbage})

InitWindow ==
    /\ SubInit /\ HistInit /\ now = Epoch
    /\ PubInit(DefaultConfig, "1000")
    /\ limits = Limits(MaxWindowDeliveries, 1, 0)

NextWindow ==
    \/ toggle_connection
    \/ on_connect
    \/ DeliverNormal
    \/ DeliverRejected
    \/ on_message_l163
    \/ on_message_l164
    \/ on_message_l167
    \/ on_message_l170

SpecWindow == InitWindow /\ [][NextWindow]_vars

(***************************************************************************)
(* Specification of the publisher alone: no subscriber is connected, so    *)
(* the broker forwards nothing.                                            *)
(***************************************************************************)
PubLimits(st, cy) ==
    [deliveries |-> cy, connects |-> 1, seconds |-> 0, starts |-> st, cycles |-> cy,
     threads |-> MaxPubThreads]

InitPub ==
    /\ SubInit /\ HistInit /\ now = Epoch
    /\ \E cfg \in {DefaultConfig, FlatConfig}, entry \in IntervalEntries :
          PubInit(cfg, entry)
    /\ limits = PubLimits(MaxStarts, MaxCycles)

NextPub ==
    \/ \E ok \in BOOLEAN : start_publishing(ok)
    \/ stop_publishing
    \/ \E t \in PubThreads : publish_loop_l118(t)
    \/ \E t \in PubThreads, r1 \in Draws : publish_loop_l121(t, r1)
    \/ \E t \in PubThreads, d \in DrawUnits, c \in DrawUnits : publish_loop_l122(t, d, c)
    \/ \E t \in PubThreads, r2 \in Draws, mult \in Multipliers :
          publish_loop_l125(t, r2, mult)
    \/ \E t \in PubThreads, ok \in BOOLEAN : publish_loop_l129(t, ok)
    \/ \E t \in PubThreads : publish_loop_l134(t)
    \/ \E t \in PubThreads : publish_loop_wake(t)
    \/ \E t \in PubThreads : publish_loop_l137(t)

SpecPub == InitPub /\ [][NextPub]_vars

(***************************************************************************)
(* Specification of the publisher feeding the subscriber through the       *)
(* broker.  The clock stands still and the gap-check threads do not run.   *)
(***************************************************************************)
InitSys ==
    /\ SubInit /\ HistInit /\ now = Epoch
    /\ \E cfg \in {DefaultConfig, FlatConfig} : PubInit(cfg, "1000")
    /\ limits = PubLimits(1, SysCycles)

NextSys ==
    \/ \E ok \in BOOLEAN : start_publishing(ok)
    \/ stop_publishing
    \/ \E t \in PubThreads : publish_loop_l118(t)
    \/ \E t \in PubThreads, r1 \in Draws : publish_loop_l121(t, r1)
    \/ \E t \in PubThreads, d \in DrawUnits, c \in DrawUnits : publish_loop_l122(t, d, c)
    \/ \E t \in PubThreads, r2 \in Draws, mult \in Multipliers :
          publish_loop_l125(t, r2, mult)
    \/ \E t \in PubThreads, ok \in BOOLEAN : publish_loop_l129(t, ok)
    \/ \E t \in PubThreads : publish_loop_l134(t)
    \/ \E t \in PubThreads : publish_loop_wake(t)
    \/ \E t \in PubThreads : publish_loop_l137(t)
    \/ toggle_connection
    \/ on_connect
    \/ DeliverChannel
    \/ on_message_l163
    \/ on_message_l164
    \/ on_message_l167
    \/ on_message_l170

SpecSys == InitSys /\ [][NextSys]_vars

(***************************************************************************)
(* The same with other publishers sending to the topic as well.            *)
(***************************************************************************)
\* A delivery of a packet some other publisher sent to the topic.
DeliverOther == DeliverFrom({WellFormedPayload(v, 0) : v \in EnvValues})

InitTopic ==
    /\ SubInit /\ HistInit /\ now = Epoch
    /\ \E cfg \in {DefaultConfig, FlatConfig} : PubInit(cfg, "1000")
    /\ limits = PubLimits(1, TopicCycles)

NextTopic ==
    \/ NextSys
    \/ DeliverOther

SpecTopic == InitTopic /\ [][NextTopic]_vars

(***************************************************************************)
(* Specification of start and stop: up to RestartThreads publish_loop      *)
(* threads share is_running, the client and the generator.  Two calls of   *)
(* generate_value made by two threads interleave line by line in the       *)
(* program; here each call is one step, so the values such an interleaving *)
(* produces are left out.                                                  *)
(***************************************************************************)
RestartLimits ==
    [deliveries |-> 0, connects |-> 0, seconds |-> 0, starts |-> RestartStarts,
     cycles |-> RestartCycles, threads |-> RestartThreads]

InitRestart ==
    /\ SubInit /\ HistInit /\ now = Epoch
    /\ PubInit(DefaultConfig, "1000")
    /\ limits = RestartLimits

NextRestart == NextPub

SpecRestart == InitRestart /\ [][NextRestart]_vars

(***************************************************************************)
(* Specification of connect and disconnect: up to ReconnectConnects        *)
(* connects, each starting a monitor_missing_data thread.                  *)
(***************************************************************************)
InitReconnect ==
    /\ SubInit /\ HistInit /\ now = Epoch
    /\ PubInit(DefaultConfig, "1000")
    /\ limits = Limits(GapDeliveries, ReconnectConnects, ReconnectSeconds)

NextReconnect == NextGap

SpecReconnect == InitReconnect /\ [][NextReconnect]_vars

(***************************************************************************)
(* Specification of the generator alone: a DataGenerator of one of the     *)
(* configurations, and up to GenCalls calls of generate_value.             *)
(***************************************************************************)
\* random.uniform(-a, a) as d * a: the two ends and the middle
GenDraws == {-1, 0, 1}

\* base_value=20, variance=5, trend_strength=2
SteepConfig == GenConfig(20 * Scale, 5 * Scale, 2 * Scale)

GenConfigs == {DefaultConfig, FlatConfig, SteepConfig}

\* a call of generate_value made on the generator directly
call_generate_value(d, c) ==
    /\ n_generated < limits.cycles
    /\ generate_value(d, c)
    /\ UNCHANGED <<is_running, pub_client, pub_client_up, interval, pub_status,
                   gen_config, pub_pc, pub_data, channel, n_start_calls, n_clients,
                   n_cycles, last_cycle, stop_seen, subAll>>

InitGen ==
    /\ SubInit /\ HistInit /\ now = Epoch
    /\ \E cfg \in GenConfigs : PubInit(cfg, "1000")
    /\ limits = PubLimits(0, GenCalls)

NextGen == \E d \in GenDraws, c \in GenDraws : call_generate_value(d, c)

SpecGen == InitGen /\ [][NextGen]_vars

(***************************************************************************)
(*                              The claims                                 *)
(***************************************************************************)
\* The payload is a JSON object with a numeric value and an ISO timestamp.
WellFormed(p) == p.json /\ p.vkind = "num" /\ p.tkind = "iso"
Malformed(p) == ~WellFormed(p)
Limit100 == ErrThreshold * Scale
Threshold == missing_data_threshold * TicksPerSecond

\* The last n elements of a sequence.
LastN(q, n) == SubSeq(q, Len(q) - n + 1, Len(q))

\* An on_message call begins in this step.
DeliveryStep == n_deliveries' = n_deliveries + 1

\* Monitor thread m finishes a gap check (line 206) in this step.
TickStep(m) == mon_pc[m] \in {"l206", "l206b"} /\ mon_pc'[m] = "l208"

\* C1: once on_message has returned from a delivery that deserialized and
\* had abs(value) > 100 (Erroneous), last_packet_time is the time of that
\* delivery.
\* (counterexample: the code returns at line 160, before line 164.)
C1_ErroneousUpdatesLastDeliveryTime ==
    (dpc = "idle" /\ WellFormed(last_payload) /\ Abs(last_payload.value) > Limit100
        /\ n_deliveries > 0)
    => last_packet_time = last_delivery_at

\* The same statement for a Normal delivery, which the code does satisfy.
NormalUpdatesLastDeliveryTime ==
    (dpc = "idle" /\ WellFormed(last_payload) /\ Abs(last_payload.value) <= Limit100
        /\ n_deliveries > 0)
    => last_packet_time = last_delivery_at

\* C2: whenever no delivery is in progress, data_points is the most recent
\* min(n, 50) Normal deliveries in arrival order, n being the number of Normal
\* deliveries so far; so it never holds more than 50 entries, and neither
\* does what the plot was given.
C2_WindowIsLastFifty ==
    /\ dpc = "idle" =>
          /\ data_points = LastN(normals, Min(Len(normals), WindowLimit))
          /\ Len(data_points) <= WindowLimit
    /\ Len(plot) <= WindowLimit

\* C2 witness: 51 Normal deliveries have been handled; the first is gone and
\* the 51st is the newest entry.
C2_Witness ==
    /\ dpc = "idle"
    /\ Len(normals) = WindowLimit + 1
    /\ Len(data_points) = WindowLimit
    /\ \A i \in 1..Len(data_points) : data_points[i] /= normals[1]
    /\ data_points[WindowLimit] = normals[WindowLimit + 1]
    /\ data_points[1] = normals[2]

\* C4: a delivery whose payload does not deserialize is reported as
\* malformed (one of the two error messages), changes neither data_points
\* nor last_packet_time, and returns at once with the network loop as it
\* was, ready for the next delivery.
C4_MalformedLeavesStateUntouched ==
    [][(DeliveryStep /\ Malformed(last_payload'))
         => /\ UNCHANGED <<data_points, last_packet_time, loop_running, subscribed>>
            /\ sub_status' \in {"invalid_json", "processing_error"}
            /\ sub_status' = "invalid_json" <=> ~last_payload'.json
            /\ dpc' = "idle"]_vars

\* C4 witness: a malformed payload has been delivered after a Normal one, and
\* a delivery after it has been handled too.
C4_Witness ==
    /\ Malformed(last_payload)
    /\ n_deliveries > 0
    /\ sub_status = "processing_error"
    /\ data_points /= <<>>
    /\ Truthy(last_packet_time)

\* C5: a gap check emits a Missing warning if and only if last_packet_time
\* is set and now - last_packet_time > missing_data_threshold, strictly;
\* so none is emitted while last_packet_time is unset, and the warning is
\* raised again by every check for which the condition holds.
C5_MissingIffGapExceeded ==
    [][\A m \in Monitors :
          TickStep(m) =>
             /\ last_tick'.emitted <=>
                  (Truthy(last_packet_time) /\ now - last_packet_time > Threshold)
             /\ missing_since' = (missing_since \/ last_tick'.emitted)]_vars

\* C5 witness: two gap checks in a row emitted a warning.
C5_Witness == last_tick.emitted /\ last_tick.before

\* C5, the boundary: a check at exactly the threshold emitted nothing.
C5_BoundaryReached == last_tick.seen /\ last_tick.gap = Threshold

\* C6: if the consumer has stayed connected since the last delivery, that
\* delivery was Normal or Erroneous, and 6 seconds have passed with the gap
\* check of the sixth second done, a Missing warning has been emitted since
\* that delivery.
\* (counterexample: an Erroneous delivery with no Normal delivery before it
\* leaves last_packet_time unset, and no warning is ever emitted.)
MonitorsAsleep ==
    \A m \in Monitors :
        mon_pc[m] = "none" \/ (mon_pc[m] = "l208" /\ mon_wake[m] > now)

SixSecondsQuiet ==
    /\ n_deliveries > 0
    /\ WellFormed(last_payload)
    /\ stayed_connected
    /\ is_connected
    /\ dpc = "idle"
    /\ now >= last_delivery_at + (missing_data_threshold + CheckPeriod) * TicksPerSecond
    /\ MonitorsAsleep

C6_SixSecondsGapWarns == SixSecondsQuiet => missing_since

\* The same statement when the last delivery was Normal, which the code does
\* satisfy.
SixSecondsGapWarnsAfterNormal ==
    (SixSecondsQuiet /\ Abs(last_payload.value) <= Limit100) => missing_since

\* C7: a step that changes last_packet_time or data_points is a step of
\* on_message (lines 163-168); no step of a gap-check thread changes either.
C7_TickLeavesStateUnchanged ==
    [][/\ (last_packet_time' /= last_packet_time \/ data_points' /= data_points)
            => (dpc \in {"l163", "l164", "l167"} /\ dpc' /= dpc /\ mon_pc' = mon_pc)
       /\ last_packet_time' /= last_packet_time => dpc = "l164"]_vars

\* C7 witness: a gap check has emitted a warning and one has not, with the
\* window and the delivery time in place.
C7_Witness ==
    /\ last_tick.emitted
    /\ data_points /= <<>>
    /\ last_packet_time = last_delivery_at

\* C9: never are the delivery path and a gap check both inside their access
\* to the monitor state: on_message between its first access (line 163) and
\* its last (line 170), a gap check between its two reads of
\* last_packet_time (line 206).
\* (counterexample: the code takes no lock.)
C9_MutualExclusion ==
    ~(/\ dpc \in {"l164", "l167", "l170"}
      /\ \E m \in Monitors : mon_pc[m] = "l206b")

\* Thread t leaves the line named pc in this step.
PubStep(t, pc) == pub_pc[t] = pc /\ pub_pc'[t] /= pc

C3_ErroneousReached ==
    /\ dpc = "idle"
    /\ n_deliveries > 0
    /\ Abs(last_payload.value) > Limit100
    /\ sub_status = "erroneous"
    /\ \E t \in PubThreads : last_cycle[t].r2 < CorruptLimit

\* C8: a cycle is dropped if and only if its first draw is <= 0.01, and a
\* dropped cycle goes straight to the sleep: no value is multiplied and
\* nothing is published.  A cycle that is
\* not dropped multiplies the value by a factor in [10, 100] exactly when
\* its second draw is < 0.01, leaves it unchanged otherwise, and calls
\* publish with that value.
C8_DropThenCorrupt ==
    [][\A t \in PubThreads :
         /\ PubStep(t, "l121") =>
               /\ last_cycle'[t].outcome = "dropped" <=> last_cycle'[t].r1 <= DropLimit
               /\ last_cycle'[t].outcome = "dropped" =>
                     (pub_pc'[t] = "l134" /\ UNCHANGED <<channel, pub_data>>)
               /\ last_cycle'[t].outcome /= "dropped" => pub_pc'[t] = "l122"
         /\ (PubStep(t, "l122") \/ PubStep(t, "l125") \/ PubStep(t, "l129"))
               => last_cycle[t].r1 > DropLimit
         /\ PubStep(t, "l125") =>
               /\ last_cycle'[t].r2 < CorruptLimit =>
                     \E mult \in 10..100 : pub_data'[t] = pub_data[t] * mult
               /\ last_cycle'[t].r2 >= CorruptLimit => pub_data'[t] = pub_data[t]
               /\ last_cycle'[t].value = pub_data'[t]
               /\ pub_pc'[t] = "l129"
         /\ (PubStep(t, "l129") /\ pub_client_up /\ subscribed /\ pub_pc'[t] = "l134")
               => channel' = Append(channel, Dumps(pub_data[t], now))]_vars

\* C8 witness: a cycle whose draws were both 0.5 has published its packet
\* unchanged, and the broker holds it.
C8_Witness ==
    \E t \in PubThreads :
       /\ last_cycle[t].outcome = "published"
       /\ last_cycle[t].r1 = 500 /\ last_cycle[t].r2 = 500
       /\ last_cycle[t].value = last_cycle[t].generated
       /\ channel /= <<>>
       /\ channel[Len(channel)].value = last_cycle[t].generated

\* C8, the other cases: a cycle whose first draw was 0.0 was dropped, and a
\* cycle was corrupted.
C8_DroppedReached ==
    \E t \in PubThreads :
       /\ last_cycle[t].outcome = "dropped" /\ last_cycle[t].r1 = 0
       /\ pub_pc[t] = "sleeping"

C8_CorruptedReached ==
    \E t \in PubThreads :
       /\ last_cycle[t].outcome = "published" /\ last_cycle[t].r2 = 0
       /\ last_cycle[t].value = 100 * last_cycle[t].generated

\* C10: a start_publishing call made while is_running is set changes
\* nothing: no thread is started, no client is created, is_running stays
\* set.
C10_StartWhileRunningIsNoop ==
    [][(n_start_calls' = n_start_calls + 1 /\ is_running)
         => UNCHANGED <<pubVars, channel, n_clients, n_cycles, n_generated,
                        last_cycle>>]_vars

\* C10 witness: a second start_publishing call was made while the loop was
\* running with its thread alive, and there is still one client.
C10_Witness ==
    /\ n_start_calls = 2
    /\ n_clients = 1
    /\ is_running
    /\ pub_status /= "stopped"
    /\ \E t \in PubThreads : pub_pc[t] /= "none"

\* C11: a publish_loop thread that was running when stop_publishing ended
\* the run leaves the loop at its next test of is_running (line 118): it
\* begins no further cycle, whatever start and stop calls come in between.
\* (counterexample: a start_publishing call sets is_running again before the
\* thread tests it, and the thread goes on.)
C11_StoppedTaskRunsNoFurtherCycle ==
    [][\A t \in PubThreads :
          (stop_seen[t] /\ PubStep(t, "l118")) => pub_pc'[t] = "none"]_vars

\* The same statement when no start_publishing call follows the stop, which
\* the code does satisfy.
StoppedTaskEndsUnlessRestarted ==
    [][\A t \in PubThreads :
          (stop_seen[t] /\ PubStep(t, "l118") /\ ~is_running) => pub_pc'[t] = "none"]_vars

\* C12: a cycle in which json.dumps or publish raised reports the error,
\* leaves is_running as it is, and goes to its sleep before the next test of
\* is_running.
\* (counterexample: the except clause is outside the sleep, so the thread
\* goes from line 137 straight back to line 118.)
C12_ErrorStillSleeps ==
    [][\A t \in PubThreads :
          (PubStep(t, "l137") /\ last_cycle[t].outcome = "raised")
             => /\ pub_status' = "error"
                /\ is_running' = is_running
                /\ pub_pc'[t] = "sleeping"]_vars

\* The same statement without the sleep, which the code does satisfy.
ErrorIsReportedAndLoopGoesOn ==
    [][\A t \in PubThreads :
          (PubStep(t, "l137") /\ last_cycle[t].outcome = "raised")
             => /\ pub_status' = "error"
                /\ is_running' = is_running
                /\ pub_pc'[t] = "l118"]_vars

\* The text of the interval entry is a finite number greater than zero.
FinitePositive(text) == text \in {"1000"}

\* C13: with an interval entry that is no finite positive number the loop is
\* never Running, no thread is started, no cycle is begun, and no error is
\* reported from inside the loop.
\* (counterexample: start_publishing does not read the entry; float() raises
\* at line 134 in every cycle.)
C13_InvalidIntervalRejectedAtStart ==
    ~FinitePositive(interval) =>
        /\ ~is_running
        /\ \A t \in PubThreads : pub_pc[t] = "none"
        /\ n_cycles = 0
        /\ pub_status /= "error"

\* C13, how far the code gets: a cycle published its packet and then failed
\* at the sleep.
C13_ErrorInsideLoopReached ==
    /\ ~FinitePositive(interval)
    /\ pub_status = "error"
    /\ \E t \in PubThreads : last_cycle[t].outcome = "published" /\ pub_pc[t] = "l118"

\* 1.0 and 0.005 in fixed point
One == Scale
HalfCent == Scale \div 200

\* C14: current_trend is 0 before the first generate_value call and lies in
\* [-1, 1] after every call, whatever trend_strength and the draws are.
C14_TrendWithinUnitInterval ==
    /\ n_generated = 0 => current_trend = 0
    /\ -One <= current_trend /\ current_trend <= One
    /\ n_generated > 0 => last_gen.trend = current_trend

\* C14 witness: with trend_strength = 2 the trend went to one end of the
\* interval and, two calls later, is at the other end.
C14_Witness ==
    /\ gen_config.trend_strength > One
    /\ n_generated >= 2
    /\ current_trend = -One
    /\ last_gen.before > gen_config.base_value

\* C15: the value a generate_value call returns differs from last_value as
\* it was before the call by at most 0.9 * variance.
\* (counterexample: base_value=20, variance=5, trend_strength=2; two calls
\* with both draws at their upper end bring last_value to 25.1, a third with
\* both draws at their lower end returns 20.57, a step of 4.53 > 4.5.)
C15_StepWithinNineTenthsVariance ==
    n_generated > 0 =>
        10 * Abs(last_gen.returned - last_gen.before) <= 9 * gen_config.variance

\* C15 as amended: last_value stays within 2 * variance of base_value, and
\* the returned value differs from last_value as it was before the call by
\* at most 0.3 * (2 * variance + 2 * variance) = 1.2 * variance, plus the
\* 0.005 that round(.., 2) can add.
C15_StepWithinTwelveTenthsVariance ==
    /\ Abs(last_value - gen_config.base_value) <= 2 * gen_config.variance
    /\ n_generated > 0 =>
          10 * Abs(last_gen.returned - last_gen.before)
             <= 12 * gen_config.variance + 10 * HalfCent

\* C15 witness: a call changed the value by more than 0.9 * variance.
C15_Witness ==
    /\ n_generated > 0
    /\ gen_config.variance > 0
    /\ 10 * Abs(last_gen.returned - last_gen.before) > 9 * gen_config.variance
    /\ last_value = last_gen.returned

\* C16: once a cycle has made its transmission decision (dropped, published
\* or failed in publishing), that cycle has called the generator exactly
\* once.
\* (counterexample: the drop test at line 121 comes before get_data_packet
\* at line 122, so a dropped cycle never calls the generator.)
C16_GeneratorAdvancesEveryCycle ==
    \A t \in PubThreads :
        last_cycle[t].outcome \in {"dropped", "published", "raised"}
            => last_cycle[t].calls = 1

\* The same statement for the cycles that are not dropped, which the code
\* does satisfy.
GeneratorAdvancesEverySurvivingCycle ==
    \A t \in PubThreads :
        last_cycle[t].outcome \in {"published", "raised"} => last_cycle[t].calls = 1

\* Thread t is inside a cycle, between the drop test and the sleep.
InCycle(t) == pub_pc[t] \in {"l122", "l125", "l129"}

\* C17: no two publish_loop threads are inside cycles that began in the
\* same run (after the same start_publishing call).
\* (counterexample: after stop and start, the old thread reads is_running
\* as True and goes on next to the new one.)
C17_AtMostOneTaskInCycle ==
    ~(\E t1, t2 \in PubThreads :
         /\ t1 /= t2
         /\ InCycle(t1) /\ InCycle(t2)
         /\ last_cycle[t1].run = last_cycle[t2].run)

\* C18: while is_running is set, a publish_loop thread exists.
\* (counterexample: connect raises at line 100 after line 98 has set
\* is_running, and no thread is started.)
C18_RunningHasTask ==
    is_running => \E t \in PubThreads : pub_pc[t] /= "none"

\* C18, what follows: a later start_publishing call found is_running set,
\* and there is still no thread.
C18_LaterStartIgnoredReached ==
    /\ is_running
    /\ n_start_calls = 2
    /\ n_clients = 1
    /\ \A t \in PubThreads : pub_pc[t] = "none"

\* C19: a monitor_missing_data thread whose connection a disconnect has
\* ended leaves the loop at its next test of is_connected (line 205), and
\* at most one thread of a connection not yet ended is alive.
\* (counterexample: a reconnect sets is_connected again before the thread
\* tests it, and the thread goes on next to the new one.)
C19_AtMostOneGapCheckTask ==
    /\ [](\A m1, m2 \in Monitors :
            (mon_pc[m1] /= "none" /\ ~disc_seen[m1] /\
             mon_pc[m2] /= "none" /\ ~disc_seen[m2]) => m1 = m2)
    /\ [][\A m \in Monitors :
            (disc_seen[m] /\ mon_pc[m] = "l205" /\ mon_pc'[m] /= "l205")
               => mon_pc'[m] = "none"]_vars

\* C19, what follows: two threads are both in a gap check (line 206).
C19_TwoGapChecksReached ==
    \E m1, m2 \in Monitors :
        /\ m1 /= m2
        /\ mon_pc[m1] \in {"l206", "l206b"}
        /\ mon_pc[m2] \in {"l206", "l206b"}
        /\ disc_seen[m1]


=============================================================================
